---------------------------- MODULE Spec2Model ----------------------------
(***************************************************************************)
(* A model of stune.RunInfo (src/stune/utils.py): a path-addressed,       *)
(* memoizing resolver over a nested configuration document, with an       *)
(* optional Trial that suggests values.                                    *)
(*                                                                         *)
(* Python values are tagged records: IntV(n), StrV(s), NoneV, ListV(items)  *)
(* or TupleV(items), DictV(kids) (an omegaconf.DictConfig) and ExcObj(name) *)
(* (an exception instance handled as data).  A path string is a            *)
(* sequence of atoms, the atom "/" being the delimiter; a key of a mapping *)
(* is the sequence of atoms between two delimiters.  Numbers are modelled  *)
(* by integers.  The document holds no ${...} interpolation.              *)
(***************************************************************************)
EXTENDS Integers, Sequences, FiniteSets, TLC

VARIABLES
    config,     \* self.config: the configuration document (a Dict)
    log,        \* self.log: the resolution cache, path -> value
    hasLog,     \* whether self.log is a dict (FALSE: it is None)
    trial,      \* self.trial: None or the active Trial
    op,         \* the last operation: "init", "getitem" or "setitem"
    arg,        \* the path given to the last operation
    ret,        \* how the last operation ended: Return(v) or Raise(exc, what)
    reads,      \* number of param[key] reads the last __getitem__ made
    calls,      \* the Trial calls the last operation made
    wasCached,  \* whether arg was a key of self.log when the operation began
    trialLog,   \* every Trial call made so far, in order
    returned,   \* path -> the value the first returning __getitem__ gave
    pinned,     \* path -> the value of the last successful __setitem__
    nops,       \* number of operations performed
    callers     \* concurrent callers of __getitem__: where each one stands

vars == <<config, log, hasLog, trial, op, arg, ret, reads, calls, wasCached, trialLog,
          returned, pinned, nops, callers>>

---------------------------------------------------------------------------
(* Bounds *)

MaxOps == 3

MaxInt == 3

NumCallers == 2

---------------------------------------------------------------------------
(* Python values *)

IntV(n) == [t |-> "int", n |-> n]

StrV(s) == [t |-> "str", s |-> s]

NoneV == [t |-> "none"]

ListV(items) == [t |-> "list", items |-> items]

DictV(kids) == [t |-> "dict", kids |-> kids]

TupleV(items) == [t |-> "tuple", items |-> items]

ExcObj(name) == [t |-> "exc", name |-> name]

ATrial == [t |-> "trial"]

K(s) == <<s>>

Put(f, k, v) == [x \in (DOMAIN f) \cup {k} |-> IF x = k THEN v ELSE f[x]]

Return(v) == [kind |-> "return", val |-> v]

Raise(exc, what) == [kind |-> "raise", exc |-> exc, what |-> what]

Call(fn, key, args, out) == [fn |-> fn, key |-> key, args |-> args, out |-> out]

---------------------------------------------------------------------------
(* i.split("/") *)

RECURSIVE SplitAcc(_, _, _, _)
SplitAcc(s, k, cur, acc) ==
    IF k > Len(s) THEN Append(acc, cur)
    ELSE IF s[k] = "/" THEN SplitAcc(s, k + 1, <<>>, Append(acc, cur))
    ELSE SplitAcc(s, k + 1, Append(cur, s[k]), acc)

Split(s) == SplitAcc(s, 1, <<>>, <<>>)

---------------------------------------------------------------------------
(* Subscripting: param[key] and param.get(key, default) *)

(* param.get(key, default) *)
Get(param, key, default) ==
    IF key \in DOMAIN param.kids THEN param.kids[key] ELSE default

(* variant: a missing key of a mapping reads as None *)
GetItemLenient(param, key) ==
    IF param.t = "dict"
    THEN Return(Get(param, key, NoneV))
    ELSE IF param.t = "list"
    THEN Raise("KeyValidationError", key)
    ELSE Raise("TypeError", param.t)

GetItem(param, key) ==
    IF param.t = "dict"
    THEN IF key \in DOMAIN param.kids
         THEN Return(param.kids[key])
         ELSE Raise("KeyError", key)
    ELSE IF param.t = "list"
    THEN Raise("KeyValidationError", key)
    ELSE Raise("TypeError", param.t)

(* for key in path: param = param[key] *)
RECURSIVE Descend(_, _, _)
Descend(param, path, k) ==
    IF k > Len(path) THEN [res |-> Return(param), reads |-> k - 1]
    ELSE LET g == GetItem(param, path[k])
         IN  IF g.kind = "raise" THEN [res |-> g, reads |-> k]
             ELSE Descend(g.val, path, k + 1)

---------------------------------------------------------------------------
(* The Trial: suggest_categorical returns one of the choices, suggest_float *)
(* a number between the bounds.                                             *)

TrialSuggestCategorical(choices) ==
    {choices.items[k] : k \in DOMAIN choices.items}

TrialSuggestFloat(low, high) == {IntV(n) : n \in low.n .. high.n}

(* tuple(range(a, b)) *)
PyRange(a, b) ==
    TupleV([k \in 1 .. (IF b > a THEN b - a ELSE 0) |-> IntV(a + k - 1)])

Outcome(res, cs) == [res |-> res, calls |-> cs]

Suggested(fn, key, args, outs) ==
    {Outcome(Return(v), <<Call(fn, key, args, v)>>) : v \in outs}

(* variant: return param["default"] *)
SampleDefaultStrict(param) ==
    {Outcome(GetItem(param, K("default")), <<>>)}

(* if trial is None: return param.get("default", None) *)
SampleDefault(param) ==
    {Outcome(Return(Get(param, K("default"), NoneV)), <<>>)}

(* variant: a single value resolves to its default, as without a Trial *)
SampleSingleValueDefault(param) ==
    {Outcome(Return(Get(param, K("default"), NoneV)), <<>>)}

(* param = param["sample_space"] *)
SampleSingleValue(param) ==
    {Outcome(GetItem(param, K("sample_space")), <<>>)}

(* variant: the Trial is keyed by the last segment of the path *)
SampleCategoricalShortKey(key, param) ==
    LET space == GetItem(param, K("sample_space"))
        last == Split(key)[Len(Split(key))]
    IN  IF space.kind = "raise" THEN {Outcome(space, <<>>)}
        ELSE Suggested("suggest_categorical", last, <<space.val>>,
                       TrialSuggestCategorical(space.val))

(* param = trial.suggest_categorical(key, param["sample_space"]) *)
SampleCategorical(key, param) ==
    LET space == GetItem(param, K("sample_space"))
    IN  IF space.kind = "raise" THEN {Outcome(space, <<>>)}
        ELSE Suggested("suggest_categorical", key, <<space.val>>,
                       TrialSuggestCategorical(space.val))

(* param = trial.suggest_float(key, *param["sample_space"]) *)
SampleFloat(key, param) ==
    LET space == GetItem(param, K("sample_space"))
    IN  IF space.kind = "raise" THEN {Outcome(space, <<>>)}
        ELSE IF space.val.t # "list" \/ Len(space.val.items) # 2
        THEN {Outcome(Raise("TypeError", space.val.t), <<>>)}
        ELSE Suggested("suggest_float", key, space.val.items,
                       TrialSuggestFloat(space.val.items[1], space.val.items[2]))

(* variant: range(low, high), the upper bound left out *)
SampleRangeExclusive(key, param) ==
    LET space == GetItem(param, K("sample_space"))
    IN  IF space.kind = "raise" THEN {Outcome(space, <<>>)}
        ELSE IF space.val.t # "list" \/ Len(space.val.items) < 2
        THEN {Outcome(Raise("TypeError", space.val.t), <<>>)}
        ELSE LET choices == PyRange(space.val.items[1].n,
                                    space.val.items[2].n)
             IN  Suggested("suggest_categorical", key, <<choices>>,
                           TrialSuggestCategorical(choices))

(* param = trial.suggest_categorical(key,                                  *)
(*     tuple(range(param["sample_space"][0], param["sample_space"][1] + 1))) *)
SampleRange(key, param) ==
    LET space == GetItem(param, K("sample_space"))
    IN  IF space.kind = "raise" THEN {Outcome(space, <<>>)}
        ELSE IF space.val.t # "list" \/ Len(space.val.items) < 2
        THEN {Outcome(Raise("TypeError", space.val.t), <<>>)}
        ELSE LET choices == PyRange(space.val.items[1].n,
                                    space.val.items[2].n + 1)
             IN  Suggested("suggest_categorical", key, <<choices>>,
                           TrialSuggestCategorical(choices))

(* variant: an unknown tag falls through to the value None *)
SampleUnsupportedSilent(sample_type) == {Outcome(Return(NoneV), <<>>)}

(* raise NotImplementedError(f"sample_type {sample_type} is not supported") *)
SampleUnsupported(sample_type) ==
    {Outcome(Raise("NotImplementedError", sample_type), <<>>)}

(* return NotImplementedError("At the moment it is not possible ...") *)
SampleUntyped == {Outcome(Return(ExcObj("NotImplementedError")), <<>>)}

(* RunInfo._sample_param(key, param, trial): the set of ways it can end *)
SampleParam(key, param, tr) ==
    IF tr = NoneV THEN SampleDefault(param)
    ELSE LET sample_type == Get(param, K("sample_type"), NoneV)
         IN  IF sample_type # NoneV
             THEN IF sample_type = StrV("single_value")
                  THEN SampleSingleValue(param)
                  ELSE IF sample_type = StrV("categorical")
                  THEN SampleCategorical(key, param)
                  ELSE IF sample_type = StrV("float")
                  THEN SampleFloat(key, param)
                  ELSE IF sample_type = StrV("range")
                  THEN SampleRange(key, param)
                  ELSE SampleUnsupported(sample_type)
             ELSE SampleUntyped

---------------------------------------------------------------------------
(* RunInfo.__getitem__(i) *)

(* variant: the membership test never succeeds *)
InLogNever(lg, i) == FALSE

(* variant: if self.log.get(i): a cached falsy value counts as absent *)
InLogTruthy(lg, i) == i \in DOMAIN lg /\ lg[i] \notin {IntV(0), NoneV}

InLog(lg, i) == i \in DOMAIN lg

Ended(res, lg, n, cs) == [res |-> res, log |-> lg, reads |-> n, calls |-> cs]

(* variant: self.log = {i: param} *)
StoreAndReturnReset(lg, i, o, n) ==
    IF o.res.kind = "raise" THEN Ended(o.res, lg, n, o.calls)
    ELSE Ended(o.res, Put(<<>>, i, o.res.val), n, o.calls)

(* variant: the path is entered in the cache before the outcome is known *)
StoreAndReturnAlways(lg, i, o, n) ==
    IF o.res.kind = "raise" THEN Ended(o.res, Put(lg, i, NoneV), n, o.calls)
    ELSE Ended(o.res, Put(lg, i, o.res.val), n, o.calls)

(* self.log[i] = param; return param *)
StoreAndReturn(lg, i, o, n) ==
    IF o.res.kind = "raise" THEN Ended(o.res, lg, n, o.calls)
    ELSE Ended(o.res, Put(lg, i, o.res.val), n, o.calls)

Found(o, n) == [o |-> o, reads |-> n]

(* path = i.split("/") ... param = self._sample_param(i, param, self.trial): *)
(* the set of ways the traversal and the sampling can end                   *)
Traverse(cfg, tr, i) ==
    LET d == Descend(cfg, Split(i), 1)
    IN  IF d.res.kind = "raise" THEN {Found(Outcome(d.res, <<>>), d.reads)}
        ELSE IF d.res.val.t = "dict"
        THEN {Found(o, d.reads) : o \in SampleParam(i, d.res.val, tr)}
        ELSE {Found(Outcome(d.res, <<>>), d.reads)}

(* variant: self.log[i] = param sits inside the isinstance branch, so a    *)
(* value the Trial did not supply is returned without being cached         *)
GetItemOutcomesCacheSampled(cfg, lg, tr, i) ==
    IF InLog(lg, i) THEN {Ended(Return(lg[i]), lg, 0, <<>>)}
    ELSE {IF Descend(cfg, Split(i), 1).res.kind = "return"
                 /\ Descend(cfg, Split(i), 1).res.val.t = "dict"
          THEN StoreAndReturn(lg, i, f.o, f.reads)
          ELSE Ended(f.o.res, lg, f.reads, f.o.calls) : f \in Traverse(cfg, tr, i)}

(* the set of ways self[i] can end in the state (cfg, lg, tr) *)
GetItemOutcomes(cfg, lg, tr, i) ==
    IF InLog(lg, i) THEN {Ended(Return(lg[i]), lg, 0, <<>>)}
    ELSE {StoreAndReturn(lg, i, f.o, f.reads) : f \in Traverse(cfg, tr, i)}

---------------------------------------------------------------------------
(* RunInfo.__setitem__(i, v) *)

(* param[key] = v *)
AssignItem(param, key, v) ==
    IF param.t = "dict" THEN Return(DictV(Put(param.kids, key, v)))
    ELSE IF param.t = "list" THEN Raise("KeyValidationError", key)
    ELSE Raise("TypeError", param.t)

(* variant: a missing key on the way is created as an empty mapping *)
RECURSIVE SetPathCreating(_, _, _)
SetPathCreating(param, path, v) ==
    IF Len(path) = 1 THEN AssignItem(param, path[1], v)
    ELSE LET g == IF param.t = "dict" /\ Head(path) \notin DOMAIN param.kids
                  THEN Return(DictV(<<>>))
                  ELSE GetItem(param, Head(path))
         IN  IF g.kind = "raise" THEN g
             ELSE LET s == SetPathCreating(g.val, Tail(path), v)
                  IN  IF s.kind = "raise" THEN s
                      ELSE Return(DictV(Put(param.kids, Head(path), s.val)))

(* for key in path[:-1]: param = param[key]; param[path[-1]] = v.  The    *)
(* result is the document after the assignment made in place.             *)
RECURSIVE SetPath(_, _, _)
SetPath(param, path, v) ==
    IF Len(path) = 1 THEN AssignItem(param, path[1], v)
    ELSE LET g == GetItem(param, Head(path))
         IN  IF g.kind = "raise" THEN g
             ELSE LET s == SetPath(g.val, Tail(path), v)
                  IN  IF s.kind = "raise" THEN s
                      ELSE Return(DictV(Put(param.kids, Head(path), s.val)))

(* variant: the assignment self.log[i] = v is left out *)
SetItemOutcomeNoLog(cfg, lg, i, v) ==
    LET s == SetPath(cfg, Split(i), v)
    IN  IF s.kind = "raise" THEN [res |-> s, config |-> cfg, log |-> lg]
        ELSE [res |-> Return(NoneV), config |-> s.val, log |-> lg]

(* variant: cached paths below i are dropped from the cache *)
SetItemOutcomeInvalidating(cfg, lg, i, v) ==
    LET s == SetPath(cfg, Split(i), v)
        below(q) == /\ Len(Split(q)) > Len(Split(i))
                    /\ SubSeq(Split(q), 1, Len(Split(i))) = Split(i)
        kept == [q \in {x \in DOMAIN lg : ~below(x)} |-> lg[q]]
    IN  IF s.kind = "raise" THEN [res |-> s, config |-> cfg, log |-> lg]
        ELSE [res |-> Return(NoneV), config |-> s.val, log |-> Put(kept, i, v)]

(* how self[i] = v ends in the state (cfg, lg) *)
SetItemOutcome(cfg, lg, i, v) ==
    LET s == SetPath(cfg, Split(i), v)
    IN  IF s.kind = "raise" THEN [res |-> s, config |-> cfg, log |-> lg]
        ELSE [res |-> Return(NoneV), config |-> s.val, log |-> Put(lg, i, v)]

(* variant: the resolved value is written back into the document *)
ConfigAfterGetItemWriteBack(cfg, i, e) ==
    IF e.res.kind = "return" /\ SetPath(cfg, Split(i), e.res.val).kind = "return"
    THEN SetPath(cfg, Split(i), e.res.val).val
    ELSE cfg

(* self.config after self[i] ended as e: __getitem__ and _sample_param     *)
(* rebind the local name param and assign nothing into the document        *)
ConfigAfterGetItem(cfg, i, e) == cfg

---------------------------------------------------------------------------
(* Inputs *)

Path(segs) ==
    [k \in 1 .. (2 * Len(segs) - 1) |->
        IF k % 2 = 1 THEN segs[(k + 1) \div 2] ELSE "/"]

PHp == Path(<<"hp">>)
PX == Path(<<"hp", "x">>)
PXDefault == Path(<<"hp", "x", "default">>)
PA == Path(<<"hp", "a">>)
PAX == Path(<<"hp", "a", "x">>)
PMissing == Path(<<"hp", "zz">>)
PMissingFirst == Path(<<"zz", "x">>)

Paths == {PHp, PX, PXDefault, PA, PAX, PMissing, PMissingFirst}

Values == {IntV(0)}

Fields(tag, space, default) ==
    LET f1 == IF tag = NoneV THEN <<>> ELSE Put(<<>>, K("sample_type"), tag)
        f2 == IF space = NoneV THEN f1 ELSE Put(f1, K("sample_space"), space)
    IN  IF default = NoneV THEN f2 ELSE Put(f2, K("default"), default)

Bounds == {ListV(<<IntV(lo), IntV(hi)>>) : lo \in 1 .. MaxInt, hi \in 1 .. MaxInt}

WellFormed(b) == b.items[1].n <= b.items[2].n

Defaults == {NoneV, IntV(32)}

(* the nodes the document may hold at hp/x *)
Nodes ==
    {IntV(4)}
    \cup {DictV(Fields(StrV("single_value"), IntV(7), d)) : d \in Defaults}
    \cup {DictV(Fields(StrV("categorical"),
                       ListV(<<StrV("relu"), StrV("gelu")>>), d)) : d \in Defaults}
    \cup {DictV(Fields(StrV("float"), ListV(<<IntV(1), IntV(MaxInt)>>), d)) :
              d \in Defaults}
    \cup {DictV(Fields(StrV("range"), b, IntV(32))) :
              b \in {c \in Bounds : WellFormed(c)}}
    \cup {DictV(Fields(StrV("unknown_tag"), IntV(7), d)) : d \in Defaults}
    \cup {DictV(Fields(NoneV, NoneV, d)) : d \in Defaults}

Document(node) ==
    DictV(Put(<<>>, K("hp"),
              DictV(Put(Put(<<>>, K("x"), node), K("a"), IntV(5)))))

Seed == Put(Put(<<>>, PMissing, IntV(9)), PA, IntV(9))

(* the log argument of __init__: not given (None), an empty dict, a seeded one *)
LogArgs == {[given |-> FALSE, d |-> <<>>], [given |-> TRUE, d |-> <<>>],
            [given |-> TRUE, d |-> Seed]}

(* variant: self.log = log *)
LogOrEmptyKeepNone(l) == l

(* log or {}: the argument if it is a non-empty dict, else a new empty dict *)
LogOrEmpty(l) ==
    IF ~l.given \/ DOMAIN l.d = {} THEN [given |-> TRUE, d |-> <<>>] ELSE l

(* RunInfo.is_log(): self.log is not None *)
IsLog == hasLog

---------------------------------------------------------------------------
(* Callers that run __getitem__ on one RunInfo at the same time, with no   *)
(* lock: a caller can be preempted after the test of line 24 and after the *)
(* sampling of line 33.                                                    *)

Callers == 1 .. NumCallers

(* the paths the concurrent callers ask for *)
RacePaths == {PX, PA}

(* pc: "idle", "missed" (line 24 was false), "sampled" (lines 27-33 done)  *)
(* or "done"; saw: whether the path was cached when line 24 ran; asked:    *)
(* the number of Trial calls the caller made                               *)
Caller(pc, path, saw, out, asked) ==
    [pc |-> pc, path |-> path, saw |-> saw, out |-> out, asked |-> asked]

Idle == Caller("idle", <<>>, FALSE, Outcome(Return(NoneV), <<>>), 0)

---------------------------------------------------------------------------
(* The state machine *)

Init ==
    /\ \E node \in Nodes : config = Document(node)
    /\ \E l \in LogArgs : log = LogOrEmpty(l).d /\ hasLog = LogOrEmpty(l).given
    /\ trial \in {NoneV, ATrial}
    /\ op = "init"
    /\ arg = <<>>
    /\ ret = Return(NoneV)
    /\ reads = 0
    /\ calls = <<>>
    /\ wasCached = FALSE
    /\ trialLog = <<>>
    /\ returned = <<>>
    /\ pinned = <<>>
    /\ nops = 0
    /\ callers = [c \in Callers |-> Idle]

Resolve(i) ==
    /\ nops < MaxOps
    /\ \E e \in GetItemOutcomes(config, log, trial, i) :
        /\ op' = "getitem"
        /\ arg' = i
        /\ ret' = e.res
        /\ log' = e.log
        /\ reads' = e.reads
        /\ calls' = e.calls
        /\ trialLog' = trialLog \o e.calls
        /\ returned' = IF e.res.kind = "return" /\ i \notin DOMAIN returned
                       THEN Put(returned, i, e.res.val) ELSE returned
        /\ config' = ConfigAfterGetItem(config, i, e)
    /\ wasCached' = (i \in DOMAIN log)
    /\ nops' = nops + 1
    /\ UNCHANGED <<trial, hasLog, pinned, callers>>

Overwrite(i, v) ==
    /\ nops < MaxOps
    /\ LET e == SetItemOutcome(config, log, i, v)
       IN  /\ op' = "setitem"
           /\ arg' = i
           /\ ret' = e.res
           /\ config' = e.config
           /\ log' = e.log
           /\ pinned' = IF e.res.kind = "return" THEN Put(pinned, i, v) ELSE pinned
    /\ reads' = 0
    /\ calls' = <<>>
    /\ wasCached' = (i \in DOMAIN log)
    /\ nops' = nops + 1
    /\ UNCHANGED <<trial, hasLog, trialLog, returned, callers>>

Next ==
    \/ \E i \in Paths : Resolve(i)
    \/ \E i \in Paths, v \in Values : Overwrite(i, v)

Spec == Init /\ [][Next]_vars

serial == <<op, arg, ret, reads, calls, wasCached, returned, pinned, nops>>

(* lines 24-25: if i in self.log: return self.log[i] *)
Check(c, i) ==
    /\ callers[c].pc = "idle"
    /\ callers' = [callers EXCEPT ![c] =
           IF InLog(log, i)
           THEN Caller("done", i, i \in DOMAIN log, Outcome(Return(log[i]), <<>>), 0)
           ELSE Caller("missed", i, i \in DOMAIN log, @.out, 0)]
    /\ UNCHANGED <<config, log, trial, hasLog, trialLog, serial>>

(* lines 27-33: the traversal and the sampling *)
Sample(c) ==
    /\ callers[c].pc = "missed"
    /\ \E f \in Traverse(config, trial, callers[c].path) :
        /\ callers' = [callers EXCEPT ![c] =
               Caller(IF f.o.res.kind = "raise" THEN "done" ELSE "sampled",
                      @.path, @.saw, f.o, Len(f.o.calls))]
        /\ trialLog' = trialLog \o f.o.calls
    /\ UNCHANGED <<config, log, trial, hasLog, serial>>

(* lines 35-37: self.log[i] = param; return param *)
Store(c) ==
    /\ callers[c].pc = "sampled"
    /\ log' = StoreAndReturn(log, callers[c].path, callers[c].out, 0).log
    /\ callers' = [callers EXCEPT ![c].pc = "done"]
    /\ UNCHANGED <<config, trial, hasLog, trialLog, serial>>

NextRace ==
    \/ \E c \in Callers, i \in RacePaths : Check(c, i)
    \/ \E c \in Callers : Sample(c)
    \/ \E c \in Callers : Store(c)

SpecRace == Init /\ [][NextRace]_vars

---------------------------------------------------------------------------
(* Properties *)

Absent == [t |-> "absent"]

(* the node of the document that the segments lead to, Absent if none *)
RECURSIVE NodeAt(_, _)
NodeAt(node, segs) ==
    IF segs = <<>> THEN node
    ELSE IF node.t = "dict" /\ Head(segs) \in DOMAIN node.kids
    THEN NodeAt(node.kids[Head(segs)], Tail(segs))
    ELSE Absent

(* the node of the document at the path of the last operation *)
Target == NodeAt(config, Split(arg))

Resolved == op = "getitem"

(* C1: any two returning Resolve(p) with no Overwrite(p) in between give   *)
(* the same value, and over the whole run the Trial is asked at most once  *)
(* with any one key.                                                       *)
C1_Idempotence ==
    /\ (Resolved /\ ret.kind = "return" /\ arg \notin DOMAIN pinned)
           => ret.val = returned[arg]
    /\ \A j, k \in DOMAIN trialLog :
           trialLog[j].key = trialLog[k].key => j = k

(* a second Resolve of a path the Trial sampled returns without a call *)
C1_Witness ==
    /\ Resolved /\ ret.kind = "return" /\ wasCached /\ calls = <<>>
    /\ arg \notin DOMAIN pinned
    /\ \E k \in DOMAIN trialLog : trialLog[k].key = arg

(* C2: once Overwrite(p, v) has succeeded, every Resolve(p) returns the v  *)
(* of the last successful Overwrite(p, .) and calls no Trial method.       *)
C2_OverwritePrecedence ==
    (Resolved /\ arg \in DOMAIN pinned)
        => (ret = Return(pinned[arg]) /\ calls = <<>>)

(* Resolve(p) after Overwrite(p, v), p sampled by the Trial before that *)
C2_Witness ==
    /\ Resolved /\ arg \in DOMAIN pinned /\ trial = ATrial
    /\ \E k \in DOMAIN trialLog : trialLog[k].key = arg
    /\ ret.val = IntV(0)

(* C3 as stated: an entry of the cache is never removed and never changed  *)
C3_AppendOnly ==
    [][\A p \in DOMAIN log : p \in DOMAIN log' /\ log'[p] = log[p]]_vars

(* C3 amended: an entry of the cache is never removed, and it changes only *)
(* by a successful Overwrite of that very path, to the value written.      *)
C3_AppendOnlyButOverwrite ==
    [][\A p \in DOMAIN log :
          /\ p \in DOMAIN log'
          /\ log'[p] # log[p] =>
                 (op' = "setitem" /\ arg' = p /\ ret'.kind = "return"
                      /\ log'[p] = pinned'[p])]_vars

(* an Overwrite has replaced the value a Resolve had cached *)
C3_Witness ==
    /\ op = "setitem" /\ ret.kind = "return"
    /\ arg \in DOMAIN returned /\ log[arg] # returned[arg]
    /\ Cardinality(DOMAIN log) > 1

(* C4: Resolve(p) of a cached p returns the cached value with no read of   *)
(* the document and no Trial call, and leaves cache and document as they   *)
(* were, whatever the document holds at p.                                 *)
C4_CacheHit ==
    [][(op' = "getitem" /\ nops' # nops /\ arg' \in DOMAIN log)
          => /\ ret' = Return(log[arg'])
             /\ reads' = 0 /\ calls' = <<>>
             /\ log' = log /\ config' = config]_vars

(* a cached path that the document does not hold has been resolved *)
C4_Witness ==
    /\ Resolved /\ wasCached /\ ret.kind = "return"
    /\ Target = Absent

Segs == Split(arg)

(* the first segment of the last operation's path that the document lacks *)
FirstMissing ==
    CHOOSE k \in 1 .. Len(Segs) :
        /\ NodeAt(config, SubSeq(Segs, 1, k)) = Absent
        /\ \A j \in 1 .. (k - 1) : NodeAt(config, SubSeq(Segs, 1, j)) # Absent

(* the last Resolve found its path uncached *)
ResolvedAnew == Resolved /\ ~wasCached

Field(node, name) ==
    IF K(name) \in DOMAIN node.kids THEN node.kids[K(name)] ELSE Absent

LookupErrors == {"KeyError", "IndexError", "LookupError"}

(* C5 as stated: Resolve of an uncached path with a segment that does not  *)
(* exist under the node reached so far raises a LookupError that names the *)
(* first missing segment.                                                  *)
C5_MissingPathLookupError ==
    (ResolvedAnew /\ Target = Absent)
        => /\ ret.kind = "raise"
           /\ ret.exc \in LookupErrors
           /\ ret.what = Segs[FirstMissing]

(* C5 amended: such a Resolve always raises and caches nothing; it raises  *)
(* KeyError, naming the first missing segment, when the node reached is a  *)
(* mapping without that key, and TypeError when the node reached is a      *)
(* scalar.                                                                 *)
C5_MissingPathFails ==
    (ResolvedAnew /\ Target = Absent)
        => /\ ret.kind = "raise"
           /\ arg \notin DOMAIN log
           /\ reads = FirstMissing
           /\ IF NodeAt(config, SubSeq(Segs, 1, FirstMissing - 1)).t = "dict"
              THEN ret = Raise("KeyError", Segs[FirstMissing])
              ELSE ret.exc = "TypeError" /\ ret.exc \notin LookupErrors

(* Resolve("zz/x") has raised KeyError for zz, the first segment *)
C5_Witness ==
    /\ ResolvedAnew /\ arg = PMissingFirst
    /\ ret = Raise("KeyError", K("zz"))

(* C6 as stated: with a Trial, Resolve of an uncached mapping that has no  *)
(* sample_type raises, and stores nothing in the cache.                    *)
C6_UntypedDictFails ==
    (ResolvedAnew /\ trial = ATrial /\ Target.t = "dict"
         /\ Field(Target, "sample_type") = Absent)
        => (ret.kind = "raise" /\ arg \notin DOMAIN log)

KnownTags ==
    {StrV("single_value"), StrV("categorical"), StrV("float"), StrV("range")}

(* C7: with a Trial, Resolve of an uncached mapping whose sample_type is   *)
(* none of the four known tags raises NotImplementedError naming the tag,  *)
(* calls no Trial method and caches nothing.                               *)
C7_UnsupportedTag ==
    (ResolvedAnew /\ trial = ATrial /\ Target.t = "dict"
         /\ Field(Target, "sample_type") \notin KnownTags \cup {Absent})
        => /\ ret = Raise("NotImplementedError", Field(Target, "sample_type"))
           /\ calls = <<>>
           /\ arg \notin DOMAIN log

(* Resolve("hp/x") has raised for the tag unknown_tag *)
C7_Witness ==
    /\ ResolvedAnew /\ trial = ATrial /\ arg = PX
    /\ ret.kind = "raise" /\ ret.exc = "NotImplementedError"
    /\ ret.what = StrV("unknown_tag")

(* C8: without a Trial, Resolve of an uncached mapping returns and caches  *)
(* the mapping's default field, None if it has none, whatever its          *)
(* sample_type; and every later Resolve of the path, no Overwrite of it    *)
(* in between, returns that value again.                                   *)
C8_DefaultWithoutTrial ==
    /\ (ResolvedAnew /\ trial = NoneV /\ Target.t = "dict")
           => /\ ret = Return(IF Field(Target, "default") = Absent
                              THEN NoneV ELSE Field(Target, "default"))
              /\ calls = <<>>
              /\ arg \in DOMAIN log /\ log[arg] = ret.val
    /\ (Resolved /\ wasCached /\ trial = NoneV
            /\ arg \in DOMAIN returned /\ arg \notin DOMAIN pinned)
           => ret = Return(returned[arg])

(* a second Resolve("hp/x") of a single_value node returns its default *)
C8_Witness ==
    /\ Resolved /\ wasCached /\ trial = NoneV /\ arg = PX
    /\ arg \in DOMAIN returned /\ arg \notin DOMAIN pinned
    /\ Target.t = "dict"
    /\ Field(Target, "sample_type") = StrV("single_value")
    /\ ret = Return(IntV(32))

(* C9: with a Trial, Resolve of an uncached range node with bounds         *)
(* low <= high makes one suggest_categorical call, keyed by the path, with *)
(* the candidates low, low+1, ..., high, and returns what the Trial gave.  *)
C9_RangeExpansion ==
    (ResolvedAnew /\ trial = ATrial /\ Target.t = "dict"
         /\ Field(Target, "sample_type") = StrV("range"))
        => LET low == Field(Target, "sample_space").items[1].n
               high == Field(Target, "sample_space").items[2].n
           IN  low <= high =>
                   /\ Len(calls) = 1
                   /\ calls[1].fn = "suggest_categorical"
                   /\ calls[1].key = arg
                   /\ Len(calls[1].args) = 1
                   /\ Len(calls[1].args[1].items) = high - low + 1
                   /\ \A k \in 1 .. (high - low + 1) :
                          calls[1].args[1].items[k] = IntV(low + k - 1)
                   /\ ret = Return(calls[1].out)

(* a range node with bounds [1, 3] has been resolved to 2 *)
C9_Witness ==
    /\ ResolvedAnew /\ trial = ATrial /\ Len(calls) = 1
    /\ Field(Target, "sample_type") = StrV("range")
    /\ Field(Target, "sample_space") = ListV(<<IntV(1), IntV(3)>>)
    /\ ret = Return(IntV(2))

(* C10: with a Trial, Resolve of an uncached categorical (float) node      *)
(* makes one suggest_categorical(p, sample_space) (suggest_float(p, low,   *)
(* high)) call, returns the Trial's value and caches it under p.           *)
C10_SampledValueCached ==
    (ResolvedAnew /\ trial = ATrial /\ Target.t = "dict"
         /\ Field(Target, "sample_type") \in {StrV("categorical"), StrV("float")})
        => /\ Len(calls) = 1
           /\ calls[1].key = arg
           /\ IF Field(Target, "sample_type") = StrV("categorical")
              THEN /\ calls[1].fn = "suggest_categorical"
                   /\ calls[1].args = <<Field(Target, "sample_space")>>
              ELSE /\ calls[1].fn = "suggest_float"
                   /\ calls[1].args = Field(Target, "sample_space").items
           /\ ret = Return(calls[1].out)
           /\ arg \in DOMAIN log /\ log[arg] = calls[1].out

(* a categorical node has been resolved to "gelu", now cached *)
C10_Witness ==
    /\ ResolvedAnew /\ trial = ATrial /\ Len(calls) = 1
    /\ calls[1].fn = "suggest_categorical"
    /\ ret = Return(StrV("gelu"))
    /\ arg \in DOMAIN log /\ log[arg] = StrV("gelu")

(* C11: with a Trial, Resolve of an uncached single_value node returns and *)
(* caches the node's sample_space, not its default, and calls no Trial     *)
(* method.                                                                 *)
C11_SingleValueVerbatim ==
    (ResolvedAnew /\ trial = ATrial /\ Target.t = "dict"
         /\ Field(Target, "sample_type") = StrV("single_value")
         /\ Field(Target, "sample_space") # Absent)
        => /\ ret = Return(Field(Target, "sample_space"))
           /\ calls = <<>>
           /\ arg \in DOMAIN log /\ log[arg] = Field(Target, "sample_space")

(* a single_value node with default 32 has been resolved to its payload 7 *)
C11_Witness ==
    /\ ResolvedAnew /\ trial = ATrial /\ arg = PX /\ Target.t = "dict"
    /\ Field(Target, "sample_type") = StrV("single_value")
    /\ Field(Target, "default") = IntV(32)
    /\ ret = Return(IntV(7))
    /\ trialLog = <<>>

(* the Trial calls made so far with the key p *)
Asked(p) == {k \in DOMAIN trialLog : trialLog[k].key = p}

(* C12: callers running Resolve at the same time with no lock can make the *)
(* Trial suggest a value for one path more than once (C12_Witness); each   *)
(* of them asks at most once, and only after it found the path uncached.   *)
C12_AskedAfterMiss ==
    /\ \A c \in Callers :
           /\ callers[c].asked <= 1
           /\ callers[c].asked = 1 =>
                  (~callers[c].saw /\ callers[c].pc \in {"sampled", "done"})
    /\ \A p \in RacePaths :
           Cardinality(Asked(p)) =
               Cardinality({c \in Callers :
                                callers[c].path = p /\ callers[c].asked = 1})

(* two callers have each made the Trial suggest a value for hp/x *)
C12_Witness ==
    /\ Cardinality(Asked(PX)) > 1
    /\ \E c, d \in Callers :
           /\ c # d
           /\ callers[c].path = PX /\ callers[d].path = PX
           /\ callers[c].asked = 1 /\ callers[d].asked = 1
           /\ ~callers[c].saw /\ ~callers[d].saw

(* C13: no Resolve, however it ends, changes the document; the document    *)
(* changes only by an Overwrite that returns.                              *)
C13_ResolveKeepsDocument ==
    [][/\ (op' = "getitem" /\ nops' # nops) => config' = config
       /\ config' # config => (op' = "setitem" /\ ret'.kind = "return")]_vars

(* a node has been sampled by the Trial and the document is as constructed *)
C13_Witness ==
    /\ ResolvedAnew /\ ret.kind = "return" /\ Len(calls) = 1
    /\ Target.t = "dict" /\ Field(Target, "sample_type") # Absent
    /\ config = Document(Target)

(* C14: is_log() is true in every state of a constructed RunInfo, whatever *)
(* log argument __init__ was given and whatever operations followed.       *)
C14_IsLogAlways == IsLog

(* a RunInfo constructed without a usable log, after a failed Resolve and  *)
(* a failed Overwrite: the cache is an empty mapping                       *)
C14_Witness ==
    /\ IsLog /\ DOMAIN log = {}
    /\ nops > 1 /\ op = "setitem" /\ ret.kind = "raise"

(* the last operation was an Overwrite and it returned *)
Overwritten == op = "setitem" /\ ret.kind = "return"

(* C15: an Overwrite(p, v) that returns calls no Trial method, leaves v at *)
(* p in the document, sets cache[p] = v and changes no other cache entry,  *)
(* whatever the relation of its path to p; so a path below p that was      *)
(* resolved before still resolves to its cached value when the document    *)
(* no longer holds it.                                                     *)
C15_OverwriteFrame ==
    /\ [][(op' = "setitem" /\ nops' # nops /\ ret'.kind = "return")
             => /\ trialLog' = trialLog /\ calls' = <<>>
                /\ NodeAt(config', Split(arg')) = pinned'[arg']
                /\ DOMAIN log' = DOMAIN log \cup {arg'}
                /\ log'[arg'] = pinned'[arg']
                /\ \A q \in DOMAIN log \ {arg'} : log'[q] = log[q]]_vars
    /\ [](\A q \in DOMAIN returned :
              (q \notin DOMAIN pinned /\ NodeAt(config, Split(q)) = Absent)
                  => (q \in DOMAIN log /\ log[q] = returned[q]))
    /\ []((Resolved /\ wasCached /\ arg \in DOMAIN returned
               /\ arg \notin DOMAIN pinned)
              => ret = Return(returned[arg]))

(* hp/x/default, resolved to 32 before Overwrite("hp/x", 0), resolves to   *)
(* 32 again although the document holds the scalar 0 at hp/x               *)
C15_Witness ==
    /\ Resolved /\ wasCached /\ arg = PXDefault
    /\ PX \in DOMAIN pinned /\ NodeAt(config, Split(PX)) = IntV(0)
    /\ Target = Absent
    /\ PXDefault \in DOMAIN returned /\ PXDefault \notin DOMAIN pinned
    /\ ret = Return(IntV(32))

(* whether a traversal and sampling of the segments raises, as the         *)
(* document now stands                                                     *)
Raises(cfg, tr, segs) ==
    \/ NodeAt(cfg, segs) = Absent
    \/ /\ tr = ATrial
       /\ NodeAt(cfg, segs).t = "dict"
       /\ Field(NodeAt(cfg, segs), "sample_type") \notin KnownTags \cup {Absent}

(* C16: a Resolve(p) that raises leaves the cache and the document as they *)
(* were, with p not in the cache; and every Resolve of an uncached path    *)
(* traverses the document again and raises or returns as the document      *)
(* then stands.                                                            *)
C16_FailedResolveNeutral ==
    /\ [][(op' = "getitem" /\ nops' # nops /\ ret'.kind = "raise")
             => /\ log' = log /\ config' = config
                /\ arg' \notin DOMAIN log'
                /\ trialLog' = trialLog]_vars
    /\ [][(op' = "getitem" /\ nops' # nops /\ arg' \notin DOMAIN log)
             => /\ reads' >= 1
                /\ ret'.kind = "raise" <=> Raises(config, trial, Split(arg'))]_vars

(* after Overwrite("hp/x", 0), Resolve("hp/x/default") has raised and the  *)
(* cache, not empty, does not hold the path                                *)
C16_Witness ==
    /\ ResolvedAnew /\ ret.kind = "raise" /\ arg = PXDefault
    /\ PX \in DOMAIN pinned /\ Target = Absent
    /\ arg \notin DOMAIN log /\ DOMAIN log # {}

(* C17: Resolve of an uncached path that ends at a scalar of the document  *)
(* returns that scalar and caches it, with one read per segment and no     *)
(* Trial call, with or without a Trial; a Trial call is made only where    *)
(* the path ends at a mapping.                                             *)
C17_ScalarLeaf ==
    /\ (ResolvedAnew /\ Target # Absent /\ Target.t # "dict")
           => /\ ret = Return(Target)
              /\ arg \in DOMAIN log /\ log[arg] = Target
              /\ calls = <<>>
              /\ reads = Len(Segs)
    /\ (Resolved /\ calls # <<>>) => (Target # Absent /\ Target.t = "dict")

(* with a Trial, hp/a has been resolved to the document's 5 and cached *)
C17_Witness ==
    /\ ResolvedAnew /\ trial = ATrial /\ arg = PA
    /\ Target = IntV(5) /\ ret = Return(IntV(5))
    /\ PA \in DOMAIN log /\ log[PA] = IntV(5)

Prefix(segs, k) == SubSeq(segs, 1, k)

(* every segment but the last leads to a mapping of the document *)
EarlierAreMappings(cfg, segs) ==
    \A k \in 0 .. (Len(segs) - 1) : NodeAt(cfg, Prefix(segs, k)).t = "dict"

(* some segment before the last does not exist in the document *)
EarlierMissing(cfg, segs) ==
    \E k \in 1 .. (Len(segs) - 1) : NodeAt(cfg, Prefix(segs, k)) = Absent

(* the length of the longest prefix of segs that leads to a node *)
Reached(cfg, segs) ==
    CHOOSE k \in 0 .. Len(segs) :
        /\ NodeAt(cfg, Prefix(segs, k)) # Absent
        /\ k < Len(segs) => NodeAt(cfg, Prefix(segs, k + 1)) = Absent

(* an Overwrite whose earlier segments are all mappings sets the last one *)
OverwriteSets ==
    (op' = "setitem" /\ nops' # nops /\ EarlierAreMappings(config, Split(arg')))
        => /\ ret'.kind = "return"
           /\ NodeAt(config', Split(arg')) = pinned'[arg']
           /\ arg' \in DOMAIN log' /\ log'[arg'] = pinned'[arg']

(* C18 as stated: Overwrite creates the last segment where all earlier     *)
(* ones are mappings; where an earlier segment is missing it raises a      *)
(* lookup error and changes neither the document nor the cache.            *)
C18_OverwriteMissingLookupError ==
    [][/\ OverwriteSets
       /\ (op' = "setitem" /\ nops' # nops /\ EarlierMissing(config, Split(arg')))
              => /\ ret'.kind = "raise" /\ ret'.exc \in LookupErrors
                 /\ config' = config /\ log' = log]_vars

(* C18 amended: where some earlier segment is not a mapping, Overwrite     *)
(* raises and changes neither the document nor the cache: KeyError naming  *)
(* the first missing segment if the node reached is a mapping without it,  *)
(* TypeError if the node reached is a scalar.                              *)
C18_OverwriteMissingFails ==
    [][/\ OverwriteSets
       /\ (op' = "setitem" /\ nops' # nops
               /\ ~EarlierAreMappings(config, Split(arg')))
              => LET segs == Split(arg')
                     k == Reached(config, segs)
                 IN  /\ ret'.kind = "raise"
                     /\ config' = config /\ log' = log
                     /\ IF NodeAt(config, Prefix(segs, k)).t = "dict"
                        THEN ret' = Raise("KeyError", segs[k + 1])
                        ELSE ret'.exc = "TypeError"]_vars

(* Overwrite("zz/x", 0) has raised KeyError for zz; zz/x is not cached *)
C18_Witness ==
    /\ op = "setitem" /\ arg = PMissingFirst
    /\ ret = Raise("KeyError", K("zz"))
    /\ arg \notin DOMAIN log /\ NodeAt(config, <<K("zz")>>) = Absent

=============================================================================
